---- MODULE Spec2Model ----
(***************************************************************************)
(* Track ingestion of xwax (track.c): an importer child process writes     *)
(* raw stereo 16-bit PCM into a pipe; the event-loop thread pulls it into  *)
(* a list of fixed-size blocks and meters it; a controller thread starts   *)
(* imports and clears the track.                                           *)
(*                                                                         *)
(* Two threads are modelled, "C" (controller: track_import, track_clear,   *)
(* track_init) and "E" (event loop: track_pollfd, poll, track_handle).     *)
(* Every statement that touches shared state is one step, so that the      *)
(* states inside a critical section are visible.                           *)
(*                                                                         *)
(* The block geometry of track.h is scaled down (two-sample blocks, two    *)
(* blocks); sample values keep their 16-bit width.                         *)
(***************************************************************************)
EXTENDS Integers, Sequences, FiniteSets, TLC

\* ------------------------------------------------------------------ bounds
MaxImports == 2        \* pipes created over a run
MaxFd == 2             \* descriptor numbers 1..MaxFd available to pipe()

\* --------------------------------------------------------------- constants
TRACK_CHANNELS == 2
TRACK_RATE == 44100
TRACK_BLOCK_SAMPLES == 2
TRACK_MAX_BLOCKS == 2
TRACK_PPM_RES == 1
TRACK_OVERVIEW_RES == 2
SAMPLE == 2 * TRACK_CHANNELS
TRACK_BLOCK_PCM_BYTES == TRACK_BLOCK_SAMPLES * SAMPLE
POLLIN == 1

CapSamples == TRACK_MAX_BLOCKS * TRACK_BLOCK_SAMPLES
CapBytes == CapSamples * SAMPLE
PpmPerBlock == TRACK_BLOCK_SAMPLES \div TRACK_PPM_RES
OvPerBlock == TRACK_BLOCK_SAMPLES \div TRACK_OVERVIEW_RES

Threads == {"C", "E"}
FDS == 1..MaxFd
NoFd == 0              \* an indeterminate value: tr->fd before it is first set
Unwritten == -1        \* content of malloc'ed memory never stored to
Junk == 85             \* byte delivered by a descriptor that is not ours
NoRet == 2             \* no return value yet

\* What an importer may write: the child writes some prefix of one of these
\* and exits.  Bytes 127, 128 and 255 give samples near the ends of the
\* 16-bit range, so that the meter bytes are non-zero; both are longer than
\* the track can hold.
Streams ==
  { <<255, 127, 0, 128, 1, 0, 255, 255, 0, 0, 0, 0, 0, 128, 0, 128, 9, 9, 9, 9, 9>>,
    <<0, 0, 255, 127, 255, 127, 255, 127, 0, 128, 2, 0, 0, 0, 1, 0, 7, 7, 7, 7, 7>> }

VARIABLES
  pid, fd, pe, blocks, bytes, length, ppm, overview, rate,   \* struct track_t
  heap, pcm, ppmb, ovb,                                      \* the blocks
  mx,                                                        \* tr->mx
  pc, retpc, fault,                                          \* control
  pstdout,                                                   \* locals of C
  r_pollfd, acc_blk, acc_fill, acc_len, z, r,                \* locals of E
  cp_samples, cp_fill, cp_blk,
  slot_fd, slot_events, slot_revents,                        \* struct pollfd
  fdtab, wends, live, signalled, nstart, src, rpos           \* the process

trv == <<pid, fd, pe, blocks, bytes, length, ppm, overview, rate>>
memv == <<heap, pcm, ppmb, ovb>>
clocals == <<pstdout>>
elocals == <<r_pollfd, acc_blk, acc_fill, acc_len, z, r, cp_samples, cp_fill, cp_blk>>
slotv == <<slot_fd, slot_events, slot_revents>>
envv == <<fdtab, wends, live, signalled, nstart, src, rpos>>
vars == <<trv, memv, mx, pc, retpc, fault, clocals, elocals, slotv, envv>>

\* ----------------------------------------------------------- pure helpers
Min(a, b) == IF a < b THEN a ELSE b
Abs(x) == IF x < 0 THEN -x ELSE x

\* a signed short read from two bytes of memory (little-endian host)
S16(lo, hi) == LET u == lo + 256 * hi IN IF u >= 32768 THEN u - 65536 ELSE u

\* v = abs(pcm[0]) + abs(pcm[1]), stored in an unsigned short
MeterV(L, R) == (Abs(L) + Abs(R)) % 65536

\* PPM-style fast meter approximation
PpmNext(p, v) == IF v > p THEN p + ((v - p) \div 8) ELSE p - ((p - v) \div 512)

\* slow-metering overview.  tr->overview is a 32-bit unsigned number; it is
\* kept as <<high 16 bits, low 16 bits>> and the update is the source's
\*   w = v << 16;
\*   if (w > o) o += (w - o) >> 8; else o -= (o - w) >> 17;
\* worked out on the halves
OverviewNext(o, v) ==
  LET oh == o[1]
      ol == o[2]
  IN IF v > oh                                        \* w > o
       THEN LET t == ol + (v - oh) * 256 - ((ol + 255) \div 256)
            IN <<oh + (t \div 65536), t % 65536>>
       ELSE LET d == (oh - v) \div 2
            IN IF ol >= d THEN <<oh, ol - d>> ELSE <<oh - 1, ol - d + 65536>>

\* left and right of stereo sample i as stored in PCM memory m
SampleL(m, i) == S16(m[SAMPLE * i], m[SAMPLE * i + 1])
SampleR(m, i) == S16(m[SAMPLE * i + 2], m[SAMPLE * i + 3])

PpmIndex(blk, fill) == blk * PpmPerBlock + (fill \div TRACK_PPM_RES)
OvIndex(blk, fill) == blk * OvPerBlock + (fill \div TRACK_OVERVIEW_RES)

\* ------------------------------------------------------------------- Init
Init ==
  /\ pid = 0
  /\ fd = NoFd                      \* track_init does not set fd
  /\ pe = "wild"                    \* track_init does not set pe
  /\ blocks = 0 /\ bytes = 0 /\ length = 0
  /\ ppm = 0 /\ overview = <<0, 0>>   \* not set by track_init, unread until set
  /\ rate = TRACK_RATE
  /\ heap = {}
  /\ pcm = [i \in 0..(CapBytes - 1) |-> Unwritten]
  /\ ppmb = [i \in 0..(TRACK_MAX_BLOCKS * PpmPerBlock - 1) |-> Unwritten]
  /\ ovb = [i \in 0..(TRACK_MAX_BLOCKS * OvPerBlock - 1) |-> Unwritten]
  /\ mx = "free"
  /\ pc = [t \in Threads |-> "idle"]
  /\ retpc = [t \in Threads |-> "idle"]
  /\ fault = "none"
  /\ pstdout = NoFd
  /\ r_pollfd = NoRet
  /\ acc_blk = 0 /\ acc_fill = 0 /\ acc_len = 0 /\ z = 0 /\ r = 0
  /\ cp_samples = 0 /\ cp_fill = 0 /\ cp_blk = 0
  /\ slot_fd = NoFd /\ slot_events = 0 /\ slot_revents = 0
  /\ fdtab = [f \in FDS |-> 0]
  /\ wends = {} /\ live = {} /\ signalled = {}
  /\ nstart = 0 /\ src = << >> /\ rpos = 0

Goto(t, l) == pc' = [pc EXCEPT ![t] = l]

\* abort(), a failed assert or a wild dereference: the process ends
Die(kind) ==
  /\ fault' = kind
  /\ UNCHANGED <<trv, memv, mx, pc, retpc, clocals, elocals, slotv, envv>>

\* ------------------------------------------- importer subprocess manager
\* pipe() hands out the lowest descriptor number that is not in use
LowestFree == CHOOSE f \in FDS : fdtab[f] = 0 /\ \A g \in FDS : fdtab[g] = 0 => f <= g

\* start_import: pipe(pstdout)
start_import_pipe ==
  /\ fault = "none" /\ pc["C"] = "start_import"
  /\ \/ \* pipe() == -1
        /\ Goto("C", "import_fail")
        /\ UNCHANGED <<trv, memv, mx, retpc, fault, clocals, elocals, slotv, envv>>
     \/ \* a new pipe
        /\ nstart < MaxImports
        /\ \E f \in FDS : fdtab[f] = 0
        /\ LET f == LowestFree
           IN /\ fdtab' = [fdtab EXCEPT ![f] = nstart + 1]
              /\ pstdout' = f
        /\ wends' = wends \cup {nstart + 1}
        /\ nstart' = nstart + 1
        /\ Goto("C", "start_fcntl")
        /\ UNCHANGED <<trv, memv, mx, retpc, fault, elocals, slotv,
                       live, signalled, src, rpos>>

\* start_import: fcntl(pstdout[0], F_SETFL, O_NONBLOCK)
start_import_fcntl ==
  /\ fault = "none" /\ pc["C"] = "start_fcntl"
  /\ \/ Goto("C", "import_fail")      \* fcntl() == -1: return -1
     \/ Goto("C", "start_vfork")
  /\ UNCHANGED <<trv, memv, mx, retpc, fault, clocals, elocals, slotv, envv>>

\* start_import: tr->pid = vfork()
start_import_vfork ==
  /\ fault = "none" /\ pc["C"] = "start_vfork"
  /\ \/ \* vfork() == -1: the result is stored before it is tested
        /\ pid' = -1
        /\ Goto("C", "import_fail")
        /\ UNCHANGED live
     \/ \* the child runs; it is numbered like its pipe
        /\ pid' = nstart
        /\ live' = live \cup {nstart}
        /\ Goto("C", "start_parent")
  /\ UNCHANGED <<fd, pe, blocks, bytes, length, ppm, overview, rate, memv, mx,
                 retpc, fault, clocals, elocals, slotv,
                 fdtab, wends, signalled, nstart, src, rpos>>

\* start_import, parent after vfork: close the write end, record fd, reset
start_import_parent ==
  /\ fault = "none" /\ pc["C"] = "start_parent"
  /\ wends' = wends \ {pid}
  /\ fd' = pstdout
  /\ bytes' = 0 /\ length' = 0 /\ ppm' = 0 /\ overview' = <<0, 0>>
  /\ rate' = TRACK_RATE
  /\ \E s \in Streams : src' = s      \* what this child is going to write
  /\ rpos' = 0
  /\ pstdout' = NoFd
  /\ Goto("C", "import_unlock")
  /\ UNCHANGED <<pid, pe, blocks, memv, mx, retpc, fault, elocals,
                 slotv, fdtab, live, signalled, nstart>>

\* abort_import: kill(tr->pid, SIGTERM), then stop_import
abort_import(t) ==
  /\ fault = "none" /\ pc[t] = "abort_import"
  /\ IF pid \in live
       THEN /\ signalled' = signalled \cup {pid}
            /\ Goto(t, "stop_import")
            /\ UNCHANGED fault
       ELSE \* kill(-1, SIGTERM) signals every process the user may signal;
            \* with none to signal it fails and the process abort()s
            \/ /\ Goto(t, "stop_import")
               /\ UNCHANGED <<fault, signalled>>
            \/ /\ fault' = "kill"
               /\ UNCHANGED <<signalled, pc>>
  /\ UNCHANGED <<trv, memv, mx, retpc, clocals, elocals, slotv,
                 fdtab, wends, live, nstart, src, rpos>>

\* close(f) succeeded on a descriptor of this track
CloseFd(t, f) ==
  /\ fdtab' = [fdtab EXCEPT ![f] = 0]
  /\ Goto(t, "stop_wait")
  /\ UNCHANGED <<trv, memv, mx, retpc, fault, clocals, elocals, slotv,
                 wends, live, signalled, nstart, src, rpos>>

\* stop_import: assert(tr->pid != 0); close(tr->fd)
stop_import_close(t) ==
  /\ fault = "none" /\ pc[t] = "stop_import"
  /\ IF pid = 0
       THEN Die("assert_pid")
       ELSE IF fd \in FDS /\ fdtab[fd] # 0
         THEN CloseFd(t, fd)
         ELSE \* the number in tr->fd is not an open descriptor of this track:
              \* EBADF and abort(), or the close takes a descriptor that
              \* another part of the process opened; an indeterminate
              \* tr->fd may also hit a descriptor of the track
              \/ Die("close")
              \/ /\ Goto(t, "stop_wait")
                 /\ UNCHANGED <<trv, memv, mx, retpc, fault, clocals, elocals,
                                slotv, envv>>
              \/ /\ fd = NoFd
                 /\ \E f \in FDS : fdtab[f] # 0 /\ CloseFd(t, f)

\* stop_import that reaps the child and leaves tr->pid as it was
stop_import_wait_KeepPid(t) ==
  /\ fault = "none" /\ pc[t] = "stop_wait"
  /\ live' = live \ {pid}
  /\ signalled' = signalled \ {pid}
  /\ Goto(t, retpc[t])
  /\ UNCHANGED <<trv, memv, mx, retpc, fault, clocals, elocals, slotv,
                 fdtab, wends, nstart, src, rpos>>

\* stop_import: waitpid(tr->pid, &status, 0); tr->pid = 0
stop_import_wait(t) ==
  /\ fault = "none" /\ pc[t] = "stop_wait"
  /\ IF pid \in live
       THEN /\ live' = live \ {pid}
            /\ signalled' = signalled \ {pid}
            /\ pid' = 0
            /\ Goto(t, retpc[t])
            /\ UNCHANGED fault
       ELSE \* waitpid(-1): ECHILD and abort(), or a child of another part
            \* of the process is reaped
            \/ /\ fault' = "waitpid"
               /\ UNCHANGED <<pid, live, signalled, pc>>
            \/ /\ pid' = 0
               /\ Goto(t, retpc[t])
               /\ UNCHANGED <<fault, live, signalled>>
  /\ UNCHANGED <<fd, pe, blocks, bytes, length, ppm, overview, rate, memv, mx,
                 retpc, clocals, elocals, slotv,
                 fdtab, wends, nstart, src, rpos>>

\* ------------------------------------------------------------ block store
\* more_space: if (tr->blocks >= TRACK_MAX_BLOCKS)
TrackFull_OffByOne == blocks > TRACK_MAX_BLOCKS
TrackFull_Never == FALSE
TrackFull == blocks >= TRACK_MAX_BLOCKS

\* byte offset, from the start of the PCM store, of
\* (void*)tr->block[block]->pcm + fill
RegionStart_BlockStart(blk, fill) == blk * TRACK_BLOCK_PCM_BYTES
RegionStart(blk, fill) == blk * TRACK_BLOCK_PCM_BYTES + fill

\* access_pcm_data that offers a whole block's length from any fill
access_pcm_data_WholeBlock ==
  /\ fault = "none" /\ pc["E"] = "access_pcm_data"
  /\ LET block == bytes \div TRACK_BLOCK_PCM_BYTES
         fill == bytes % TRACK_BLOCK_PCM_BYTES
         region == /\ acc_blk' = block
                   /\ acc_fill' = fill
                   /\ acc_len' = TRACK_BLOCK_PCM_BYTES
                   /\ Goto("E", "read")
                   /\ UNCHANGED <<r, retpc>>
         null == /\ r' = -1                    \* read_from_pipe returns -1
                 /\ Goto("E", "stop_import")
                 /\ retpc' = [retpc EXCEPT !["E"] = "handle_unlock"]
                 /\ UNCHANGED <<acc_blk, acc_fill, acc_len, blocks, memv>>
     IN IF block = blocks
          THEN IF TrackFull
                 THEN null                     \* Maximum track length reached
                 ELSE \/ null                  \* malloc() == NULL
                      \/ /\ blocks' = blocks + 1
                         /\ heap' = heap \cup {blocks}
                         /\ pcm' = [i \in DOMAIN pcm |->
                                      IF i \div TRACK_BLOCK_PCM_BYTES = blocks
                                        THEN Unwritten ELSE pcm[i]]
                         /\ ppmb' = [i \in DOMAIN ppmb |->
                                      IF i \div PpmPerBlock = blocks
                                        THEN Unwritten ELSE ppmb[i]]
                         /\ ovb' = [i \in DOMAIN ovb |->
                                      IF i \div OvPerBlock = blocks
                                        THEN Unwritten ELSE ovb[i]]
                         /\ region
          ELSE region /\ UNCHANGED <<blocks, memv>>
  /\ UNCHANGED <<pid, fd, pe, bytes, length, ppm, overview, rate, mx, fault,
                 clocals, r_pollfd, z, cp_samples, cp_fill, cp_blk, slotv, envv>>

\* access_pcm_data, with more_space when the byte cursor is at the end of
\* the last allocated block
access_pcm_data ==
  /\ fault = "none" /\ pc["E"] = "access_pcm_data"
  /\ LET block == bytes \div TRACK_BLOCK_PCM_BYTES
         fill == bytes % TRACK_BLOCK_PCM_BYTES
         region == /\ acc_blk' = block
                   /\ acc_fill' = fill
                   /\ acc_len' = TRACK_BLOCK_PCM_BYTES - fill
                   /\ Goto("E", "read")
                   /\ UNCHANGED <<r, retpc>>
         null == /\ r' = -1                    \* read_from_pipe returns -1
                 /\ Goto("E", "stop_import")
                 /\ retpc' = [retpc EXCEPT !["E"] = "handle_unlock"]
                 /\ UNCHANGED <<acc_blk, acc_fill, acc_len, blocks, memv>>
     IN IF block = blocks
          THEN IF TrackFull
                 THEN null                     \* Maximum track length reached
                 ELSE \/ null                  \* malloc() == NULL
                      \/ /\ blocks' = blocks + 1
                         /\ heap' = heap \cup {blocks}
                         /\ pcm' = [i \in DOMAIN pcm |->
                                      IF i \div TRACK_BLOCK_PCM_BYTES = blocks
                                        THEN Unwritten ELSE pcm[i]]
                         /\ ppmb' = [i \in DOMAIN ppmb |->
                                      IF i \div PpmPerBlock = blocks
                                        THEN Unwritten ELSE ppmb[i]]
                         /\ ovb' = [i \in DOMAIN ovb |->
                                      IF i \div OvPerBlock = blocks
                                        THEN Unwritten ELSE ovb[i]]
                         /\ region
          ELSE region /\ UNCHANGED <<blocks, memv>>
  /\ UNCHANGED <<pid, fd, pe, bytes, length, ppm, overview, rate, mx, fault,
                 clocals, r_pollfd, z, cp_samples, cp_fill, cp_blk, slotv, envv>>

\* the descriptor in tr->fd is the read end of the running child's pipe
OwnsFd == pid > 0 /\ fd \in FDS /\ fdtab[fd] = pid

\* read() stored the n bytes data at the region access_pcm_data returned
ReadData(n, data) ==
  LET off == RegionStart(acc_blk, acc_fill)
  IN /\ pcm' = [i \in DOMAIN pcm |->
                  IF i >= off /\ i < off + n THEN data[i - off + 1] ELSE pcm[i]]
     /\ z' = n
     /\ rpos' = rpos + n
     /\ Goto("E", "commit_bytes")
     /\ UNCHANGED <<r, retpc>>

\* read_from_pipe returns x and track_handle goes to UNLOCK whatever x is
ReadReturn_NoStop(x) ==
  /\ r' = x
  /\ Goto("E", "handle_unlock")
  /\ retpc' = [retpc EXCEPT !["E"] = "handle_unlock"]
  /\ UNCHANGED <<pcm, z, rpos>>

\* read_from_pipe returns x: 0 goes back to track_handle's UNLOCK, anything
\* else to stop_import
ReadReturn(x) ==
  /\ r' = x
  /\ Goto("E", IF x = 0 THEN "handle_unlock" ELSE "stop_import")
  /\ retpc' = [retpc EXCEPT !["E"] = "handle_unlock"]
  /\ UNCHANGED <<pcm, z, rpos>>

\* ------------------------------------------------------------ ingest pump
\* read_from_pipe: z = read(tr->fd, pcm, len) and the tests on z.  The child
\* may have written any further part of src, and may have exited.
read_from_pipe_read ==
  /\ fault = "none" /\ pc["E"] = "read"
  /\ IF acc_blk \notin heap
       THEN Die("segv")
       ELSE
         /\ IF OwnsFd
              THEN \/ ReadReturn(0) /\ UNCHANGED src           \* EAGAIN
                   \/ ReadReturn(-1) /\ UNCHANGED src          \* other errno
                   \/ ReadReturn(1) /\ UNCHANGED src           \* EOF
                   \/ \E n \in 1..Min(acc_len, Len(src) - rpos) :
                        /\ ReadData(n, SubSeq(src, rpos + 1, rpos + n))
                        /\ UNCHANGED src
              ELSE \* tr->fd is not the pipe of a running child: EBADF,
                   \* EAGAIN from a pipe nobody writes to, or whatever a
                   \* descriptor of another part of the process delivers
                   \/ ReadReturn(0) /\ UNCHANGED src
                   \/ ReadReturn(-1) /\ UNCHANGED src
                   \/ ReadReturn(1) /\ UNCHANGED src
                   \/ \E n \in {acc_len} :
                        /\ src' = SubSeq(src, 1, rpos) \o [i \in 1..n |-> Junk]
                        /\ ReadData(n, [i \in 1..n |-> Junk])
         /\ UNCHANGED <<trv, heap, ppmb, ovb, mx, fault, clocals, r_pollfd,
                        acc_blk, acc_fill, acc_len, cp_samples, cp_fill, cp_blk,
                        slotv, fdtab, wends, live, signalled, nstart>>

\* commit_bytes that does not count the bytes
commit_bytes_NoAdvance ==
  /\ fault = "none" /\ pc["E"] = "commit_bytes"
  /\ Goto("E", "commit_pcm_samples")
  /\ UNCHANGED <<trv, memv, mx, retpc, fault, clocals, elocals, slotv, envv>>

\* commit_bytes: tr->bytes += len
commit_bytes ==
  /\ fault = "none" /\ pc["E"] = "commit_bytes"
  /\ bytes' = bytes + z
  /\ Goto("E", "commit_pcm_samples")
  /\ UNCHANGED <<pid, fd, pe, blocks, length, ppm, overview, rate, memv, mx,
                 retpc, fault, clocals, elocals, slotv, envv>>

\* the number of samples commit_bytes hands to commit_pcm_samples
NewSamples_RoundUp == (bytes + SAMPLE - 1) \div SAMPLE - length
NewSamples == bytes \div SAMPLE - length

\* commit_pcm_samples: fill = tr->length % TRACK_BLOCK_SAMPLES
CommitFill_OfBytes == bytes % TRACK_BLOCK_SAMPLES
CommitFill == length % TRACK_BLOCK_SAMPLES

\* commit_pcm_samples up to the metering loop: block, fill, the assertion
\* and tr->length += samples
commit_pcm_samples ==
  /\ fault = "none" /\ pc["E"] = "commit_pcm_samples"
  /\ LET samples == NewSamples
         fill == CommitFill
     IN IF ~(samples <= TRACK_BLOCK_SAMPLES - fill)
          THEN Die("assert_samples")
          ELSE /\ length' = length + samples
               /\ cp_blk' = length \div TRACK_BLOCK_SAMPLES
               /\ cp_fill' = fill
               /\ cp_samples' = samples
               /\ Goto("E", IF samples > 0 THEN "meter" ELSE "access_pcm_data")
               /\ UNCHANGED <<pid, fd, pe, blocks, bytes, ppm, overview, rate,
                              memv, mx, retpc, fault, clocals, r_pollfd, acc_blk,
                              acc_fill, acc_len, z, r, slotv, envv>>

\* one turn of the metering loop of commit_pcm_samples
commit_pcm_samples_meter ==
  /\ fault = "none" /\ pc["E"] = "meter"
  /\ cp_samples > 0
  /\ LET i == cp_blk * TRACK_BLOCK_SAMPLES + cp_fill
         v == MeterV(SampleL(pcm, i), SampleR(pcm, i))
         p == PpmNext(ppm, v)
         o == OverviewNext(overview, v)
     IN /\ ppm' = p
        /\ ppmb' = [ppmb EXCEPT ![PpmIndex(cp_blk, cp_fill)] = (p \div 256) % 256]
        /\ overview' = o
        /\ ovb' = [ovb EXCEPT ![OvIndex(cp_blk, cp_fill)] = o[1] \div 256]   \* o >> 24
  /\ cp_fill' = cp_fill + 1
  /\ cp_samples' = cp_samples - 1
  /\ Goto("E", IF cp_samples = 1 THEN "access_pcm_data" ELSE "meter")
  /\ UNCHANGED <<pid, fd, pe, blocks, bytes, length, rate, heap, pcm, mx, retpc,
                 fault, clocals, r_pollfd, acc_blk, acc_fill, acc_len, z, r,
                 cp_blk, slotv, envv>>

\* ------------------------------------------------------- track controller
\* track_clear destroys the track: it is running, or has run and track_init
\* has not been called again
Clearing == retpc["C"] = "clear_free" \/ pc["C"] = "dead"

\* track_init on the storage of a cleared track
track_init ==
  /\ fault = "none" /\ pc["C"] = "dead"
  /\ pid' = 0
  /\ blocks' = 0 /\ bytes' = 0 /\ length' = 0
  /\ rate' = TRACK_RATE
  /\ mx' = "free"
  /\ Goto("C", "idle")
  /\ retpc' = [retpc EXCEPT !["C"] = "idle"]
  /\ src' = << >> /\ rpos' = 0       \* nothing has been read into this track
  /\ UNCHANGED <<fd, pe, ppm, overview, memv, fault, pstdout, elocals, slotv,
                 fdtab, wends, live, signalled, nstart>>

\* track_clear is entered; no other thread is inside an operation of the
\* track (it destroys the mutex)
track_clear ==
  /\ fault = "none" /\ pc["C"] = "idle" /\ pc["E"] = "idle"
  /\ Goto("C", IF pid # 0 THEN "abort_import" ELSE "clear_free")
  /\ retpc' = [retpc EXCEPT !["C"] = "clear_free"]
  /\ UNCHANGED <<trv, memv, mx, fault, pstdout, elocals, slotv, envv>>

\* track_clear: free(tr->block[n]) for every n < tr->blocks
track_clear_free ==
  /\ fault = "none" /\ pc["C"] = "clear_free"
  /\ heap' = heap \ (0..(blocks - 1))
  /\ pcm' = [i \in DOMAIN pcm |-> Unwritten]       \* freed memory has no content
  /\ ppmb' = [i \in DOMAIN ppmb |-> Unwritten]
  /\ ovb' = [i \in DOMAIN ovb |-> Unwritten]
  /\ Goto("C", "clear_destroy")
  /\ UNCHANGED <<trv, mx, retpc, fault, clocals, elocals, slotv, envv>>

\* track_clear: pthread_mutex_destroy(&tr->mx)
track_clear_destroy ==
  /\ fault = "none" /\ pc["C"] = "clear_destroy"
  /\ IF mx = "free"
       THEN /\ mx' = "destroyed"
            /\ Goto("C", "dead")
            /\ UNCHANGED <<trv, memv, retpc, fault, clocals, elocals, slotv, envv>>
       ELSE Die("mutex")

\* track_import that starts the new importer without aborting the old one
track_import_lock_NoAbort ==
  /\ fault = "none" /\ pc["C"] = "idle" /\ ~Clearing
  /\ mx = "free"
  /\ mx' = "C"
  /\ Goto("C", "start_import")
  /\ retpc' = [retpc EXCEPT !["C"] = "start_import"]
  /\ UNCHANGED <<trv, memv, fault, pstdout, elocals, slotv, envv>>

\* track_import: LOCK(tr); if (tr->pid != 0) abort_import(tr)
track_import_lock ==
  /\ fault = "none" /\ pc["C"] = "idle" /\ ~Clearing
  /\ mx = "free"
  /\ mx' = "C"
  /\ Goto("C", IF pid # 0 THEN "abort_import" ELSE "start_import")
  /\ retpc' = [retpc EXCEPT !["C"] = "start_import"]
  /\ UNCHANGED <<trv, memv, fault, pstdout, elocals, slotv, envv>>

\* track_import: start_import failed; UNLOCK(tr); return -1
track_import_fail ==
  /\ fault = "none" /\ pc["C"] = "import_fail"
  /\ mx' = "free"
  /\ pstdout' = NoFd
  /\ Goto("C", "idle")
  /\ retpc' = [retpc EXCEPT !["C"] = "idle"]
  /\ UNCHANGED <<trv, memv, fault, elocals, slotv, envv>>

\* track_import: UNLOCK(tr) after a successful start
track_import_unlock ==
  /\ fault = "none" /\ pc["C"] = "import_unlock"
  /\ mx' = "free"
  /\ Goto("C", "rig_awaken")
  /\ UNCHANGED <<trv, memv, retpc, fault, clocals, elocals, slotv, envv>>

\* track_import: rig_awaken(tr->rig); return 0
track_import_awaken ==
  /\ fault = "none" /\ pc["C"] = "rig_awaken"
  /\ Goto("C", "idle")
  /\ retpc' = [retpc EXCEPT !["C"] = "idle"]
  /\ UNCHANGED <<trv, memv, mx, fault, pstdout, elocals, slotv, envv>>

\* track_pollfd: LOCK(tr)
track_pollfd_lock ==
  /\ fault = "none" /\ pc["E"] = "idle" /\ ~Clearing
  /\ mx = "free"
  /\ mx' = "E"
  /\ Goto("E", "pollfd")
  /\ UNCHANGED <<trv, memv, retpc, fault, clocals, elocals, slotv, envv>>

\* track_pollfd: fill pe when importing, forget it otherwise
track_pollfd_fill ==
  /\ fault = "none" /\ pc["E"] = "pollfd"
  /\ IF pid # 0
       THEN /\ slot_fd' = fd
            /\ slot_revents' = 0
            /\ slot_events' = POLLIN
            /\ pe' = "slot"
            /\ r_pollfd' = 1
       ELSE /\ pe' = "null"
            /\ r_pollfd' = 0
            /\ UNCHANGED slotv
  /\ Goto("E", "pollfd_unlock")
  /\ UNCHANGED <<pid, fd, blocks, bytes, length, ppm, overview, rate, memv, mx,
                 retpc, fault, clocals, acc_blk, acc_fill, acc_len, z, r,
                 cp_samples, cp_fill, cp_blk, envv>>

\* track_pollfd: UNLOCK(tr); return r
track_pollfd_unlock ==
  /\ fault = "none" /\ pc["E"] = "pollfd_unlock"
  /\ mx' = "free"
  /\ r_pollfd' = NoRet
  /\ Goto("E", "idle")
  /\ UNCHANGED <<trv, memv, retpc, fault, clocals, acc_blk, acc_fill, acc_len,
                 z, r, cp_samples, cp_fill, cp_blk, slotv, envv>>

\* the event loop's poll() reports the registered slot readable
poll ==
  /\ fault = "none" /\ pc["E"] = "idle" /\ ~Clearing
  /\ pe = "slot"                      \* the last track_pollfd returned 1
  /\ slot_revents = 0
  /\ slot_revents' = POLLIN
  /\ UNCHANGED <<trv, memv, mx, pc, retpc, fault, clocals, elocals,
                 slot_fd, slot_events, envv>>

\* track_handle is called
track_handle ==
  /\ fault = "none" /\ pc["E"] = "idle" /\ ~Clearing
  /\ Goto("E", "handle")
  /\ UNCHANGED <<trv, memv, mx, retpc, fault, clocals, elocals, slotv, envv>>

\* track_handle: if (!tr->pe || !tr->pe->revents) return 0
track_handle_probe ==
  /\ fault = "none" /\ pc["E"] = "handle"
  /\ \/ /\ pe = "null" \/ (pe = "slot" /\ slot_revents = 0)
        /\ Goto("E", "idle")
        /\ UNCHANGED fault
     \/ /\ pe = "slot" /\ slot_revents # 0
        /\ Goto("E", "handle_lock")
        /\ UNCHANGED fault
     \/ \* pe was never assigned: the load of pe->revents faults or yields
        \* any value
        /\ pe = "wild"
        /\ \/ fault' = "segv" /\ UNCHANGED pc
           \/ Goto("E", "idle") /\ UNCHANGED fault
           \/ Goto("E", "handle_lock") /\ UNCHANGED fault
  /\ UNCHANGED <<trv, memv, mx, retpc, clocals, elocals, slotv, envv>>

\* track_handle that goes on without taking the mutex
track_handle_lock_NoLock ==
  /\ fault = "none" /\ pc["E"] = "handle_lock"
  /\ Goto("E", IF pid # 0 THEN "access_pcm_data" ELSE "handle_unlock")
  /\ UNCHANGED <<trv, memv, mx, retpc, fault, clocals, elocals, slotv, envv>>

\* track_handle: LOCK(tr); if (tr->pid != 0) r = read_from_pipe(tr)
track_handle_lock ==
  /\ fault = "none" /\ pc["E"] = "handle_lock"
  /\ mx = "free"
  /\ mx' = "E"
  /\ Goto("E", IF pid # 0 THEN "access_pcm_data" ELSE "handle_unlock")
  /\ UNCHANGED <<trv, memv, retpc, fault, clocals, elocals, slotv, envv>>

\* track_handle: UNLOCK(tr); return 0
track_handle_unlock ==
  /\ fault = "none" /\ pc["E"] = "handle_unlock"
  /\ mx' = "free"
  /\ acc_blk' = 0 /\ acc_fill' = 0 /\ acc_len' = 0 /\ z' = 0 /\ r' = 0
  /\ cp_samples' = 0 /\ cp_fill' = 0 /\ cp_blk' = 0
  /\ Goto("E", "idle")
  /\ retpc' = [retpc EXCEPT !["E"] = "idle"]
  /\ UNCHANGED <<trv, memv, fault, clocals, r_pollfd, slotv, envv>>

\* ---------------------------------------------------------- specification
Next ==
  \/ track_init
  \/ track_clear
  \/ track_clear_free
  \/ track_clear_destroy
  \/ track_import_lock
  \/ start_import_pipe
  \/ start_import_fcntl
  \/ start_import_vfork
  \/ start_import_parent
  \/ track_import_fail
  \/ track_import_unlock
  \/ track_import_awaken
  \/ \E t \in Threads : abort_import(t)
  \/ \E t \in Threads : stop_import_close(t)
  \/ \E t \in Threads : stop_import_wait(t)
  \/ track_pollfd_lock
  \/ track_pollfd_fill
  \/ track_pollfd_unlock
  \/ poll
  \/ track_handle
  \/ track_handle_probe
  \/ track_handle_lock
  \/ access_pcm_data
  \/ read_from_pipe_read
  \/ commit_bytes
  \/ commit_pcm_samples
  \/ commit_pcm_samples_meter
  \/ track_handle_unlock

Spec == Init /\ [][Next]_vars

\* ------------------------------------------- one importer, run to its end
\* The event loop serving one importer that writes a stream of at most
\* CapBytes bytes and exits, with memory to be had and a pipe that works.

\* the streams of at most CapBytes bytes
FiniteStreams == {SubSeq(s, 1, B) : s \in Streams, B \in 0..CapBytes}

\* track_import has returned 0 and the first track_pollfd has returned 1
InitFinite ==
  /\ pid = 1 /\ fd = 1
  /\ pe = "slot"
  /\ blocks = 0 /\ bytes = 0 /\ length = 0
  /\ ppm = 0 /\ overview = <<0, 0>>
  /\ rate = TRACK_RATE
  /\ heap = {}
  /\ pcm = [i \in 0..(CapBytes - 1) |-> Unwritten]
  /\ ppmb = [i \in 0..(TRACK_MAX_BLOCKS * PpmPerBlock - 1) |-> Unwritten]
  /\ ovb = [i \in 0..(TRACK_MAX_BLOCKS * OvPerBlock - 1) |-> Unwritten]
  /\ mx = "free"
  /\ pc = [t \in Threads |-> "idle"]
  /\ retpc = [t \in Threads |-> "idle"]
  /\ fault = "none"
  /\ pstdout = NoFd
  /\ r_pollfd = NoRet
  /\ acc_blk = 0 /\ acc_fill = 0 /\ acc_len = 0 /\ z = 0 /\ r = 0
  /\ cp_samples = 0 /\ cp_fill = 0 /\ cp_blk = 0
  /\ slot_fd = 1 /\ slot_events = POLLIN /\ slot_revents = 0
  /\ fdtab = [f \in FDS |-> IF f = 1 THEN 1 ELSE 0]
  /\ wends = {} /\ live = {1} /\ signalled = {}
  /\ nstart = 1 /\ src \in FiniteStreams /\ rpos = 0

\* access_pcm_data where malloc() does not fail
access_pcm_data_alloc ==
  /\ access_pcm_data
  /\ pc'["E"] = "stop_import" => TrackFull

\* read_from_pipe's read() on the pipe of a child that writes src and exits:
\* data while there is some, EAGAIN while the child is slow, end of file
\* after the last byte, no other error
read_from_pipe_finite ==
  /\ read_from_pipe_read
  /\ pc'["E"] = "stop_import" => (r' = 1 /\ rpos = Len(src))

\* a read that does not find the pipe empty
read_from_pipe_delivers == read_from_pipe_finite /\ pc'["E"] # "handle_unlock"

\* track_handle called with the slot marked ready
track_handle_ready == track_handle /\ slot_revents # 0

NextFinite ==
  \/ track_pollfd_lock
  \/ track_pollfd_fill
  \/ track_pollfd_unlock
  \/ poll
  \/ track_handle
  \/ track_handle_probe
  \/ track_handle_lock
  \/ access_pcm_data_alloc
  \/ read_from_pipe_finite
  \/ commit_bytes
  \/ commit_pcm_samples
  \/ commit_pcm_samples_meter
  \/ stop_import_close("E")
  \/ stop_import_wait("E")
  \/ track_handle_unlock

\* the event loop runs on, polls, calls track_handle for a ready slot, and
\* the child gets to write and to exit
SpecFinite ==
  /\ InitFinite /\ [][NextFinite]_vars
  /\ WF_vars(NextFinite)
  /\ SF_vars(poll)
  /\ SF_vars(track_handle_ready)
  /\ SF_vars(read_from_pipe_delivers)

\* ============================================================ properties
\* no thread is between LOCK(tr) and UNLOCK(tr)
Unlocked == mx # "C" /\ mx # "E"

\* C1: whenever no operation holds the lock, the committed samples are the
\* whole samples among the bytes written:
\* length * SAMPLE <= bytes < length * SAMPLE + SAMPLE
C1_WholeSamplesCommitted ==
  Unlocked => (length * SAMPLE <= bytes /\ bytes < length * SAMPLE + SAMPLE)

\* an import that was restarted has left a partial sample behind a committed one
C1_Witness ==
  /\ Unlocked /\ pc["E"] = "idle" /\ nstart = 2 /\ pid = 2
  /\ length = 1 /\ bytes = SAMPLE + 3

\* C2: the committed samples fit in the allocated blocks, there are never
\* more than TRACK_MAX_BLOCKS blocks, and no step but track_init lowers
\* tr->blocks
C2_BlocksBoundLength ==
  /\ [](length <= blocks * TRACK_BLOCK_SAMPLES /\ blocks <= TRACK_MAX_BLOCKS)
  /\ [][pc["C"] # "dead" => blocks' >= blocks]_vars

\* a second import has reset the counters and kept a full block list
C2_Witness ==
  /\ nstart = 2 /\ pid = 2 /\ blocks = TRACK_MAX_BLOCKS
  /\ length = 1 /\ pc["E"] = "read"

\* C3: when track_import is about to return -1 no child is recorded
C3_FailedStartLeavesIdle == pc["C"] = "import_fail" => pid = 0

\* the fields of struct track_t and the list of allocated blocks
TrackFields == <<pid, fd, pe, blocks, bytes, length, ppm, overview, rate, heap>>
ActsC == pc'["C"] # pc["C"]
ActsE == pc'["E"] # pc["E"] \/ elocals' # elocals
HoldsLock == (ActsC /\ mx = "C") \/ (ActsE /\ mx = "E")
InClear == retpc["C"] = "clear_free"

\* C4 as claimed: every step of track_import, track_clear, track_pollfd and
\* track_handle that changes a track field is taken by the thread that
\* holds the mutex (looked at only while no vfork() has failed)
C4_AllMutationsLocked ==
  [][(TrackFields' # TrackFields /\ pc["C"] # "dead" /\ pid # -1) => HoldsLock]_vars

\* C4 as amended: the steps of track_import, track_pollfd and track_handle
\* that change a track field are taken by the thread that holds the mutex
C4_ImportPollHandleLocked ==
  [][(TrackFields' # TrackFields /\ pc["C"] # "dead" /\ ~InClear) => HoldsLock]_vars

\* the pump has allocated a block and advanced bytes under the lock while
\* the controller waits in track_import
C4_Witness ==
  /\ mx = "E" /\ pc["E"] = "commit_pcm_samples" /\ bytes > 0 /\ blocks = 1
  /\ pc["C"] = "idle"

\* --- what one read of the whole consumed stream commits
\* v of the k-th stereo sample (from 0) of src
SrcV(k) ==
  MeterV(S16(src[SAMPLE * k + 1], src[SAMPLE * k + 2]),
         S16(src[SAMPLE * k + 3], src[SAMPLE * k + 4]))

RECURSIVE RefPpm(_)
RefPpm(n) == IF n = 0 THEN 0 ELSE PpmNext(RefPpm(n - 1), SrcV(n - 1))

RECURSIVE RefOverview(_)
RefOverview(n) == IF n = 0 THEN <<0, 0>> ELSE OverviewNext(RefOverview(n - 1), SrcV(n - 1))

\* meter byte of bucket b once the first n samples are metered
RefPpmByte(b, n) == RefPpm(Min(n, (b + 1) * TRACK_PPM_RES)) \div 256
RefOvByte(b, n) == RefOverview(Min(n, (b + 1) * TRACK_OVERVIEW_RES))[1] \div 256

\* whole samples among the bytes read from the pipe so far
Avail == rpos \div SAMPLE

\* C5: while an importer runs and the event loop serves its pipe, a reader
\* that sees length = n finds, for every sample below n, its
\* PCM stored and the ppm and overview bytes of its bucket already stored
\* for it (the bucket holds the meter value after that sample or a later one)
C5_LengthWrittenLast ==
  (pid \in live /\ pe = "slot" /\ OwnsFd) =>
    \A i \in 0..(length - 1) :
      /\ i < Avail
      /\ \A j \in 0..(SAMPLE - 1) : pcm[SAMPLE * i + j] = src[SAMPLE * i + j + 1]
      /\ \E m \in (i + 1)..Avail :
           /\ ppmb[i \div TRACK_PPM_RES] = RefPpmByte(i \div TRACK_PPM_RES, m)
           /\ ovb[i \div TRACK_OVERVIEW_RES] = RefOvByte(i \div TRACK_OVERVIEW_RES, m)

\* --- C6
\* read ends the track owns: that of the recorded child and that of the
\* pipe start_import is setting up
OwnedReadEnds ==
  {f \in FDS : fdtab[f] # 0 /\ (fdtab[f] = pid \/ (f = pstdout /\ pc["C"] # "idle"))}

\* read ends of pipes whose child was started: the parent has closed its
\* copy of the write end
StartedReadEnds == {f \in FDS : fdtab[f] # 0 /\ fdtab[f] \notin wends}

\* C6: track_import on a running import signals the child, closes its read
\* end and reaps it, and only then spawns the next; the track never has two
\* children or two read ends; once the new child runs, the counters count
\* its stream only
C6_ReimportReplacesChild ==
  /\ Cardinality(live) <= 1
  /\ Cardinality(OwnedReadEnds) <= 1
  /\ (pc["C"] = "stop_wait" /\ retpc["C"] = "start_import" /\ pid \in live
        => pid \in signalled /\ \A f \in FDS : fdtab[f] # pid)
  /\ (pc["C"] \in {"start_import", "start_fcntl", "start_vfork"}
        => live = {} /\ StartedReadEnds = {})
  /\ (pc["C"] = "import_unlock"
        => live = {pid} /\ OwnsFd /\ bytes = 0 /\ length = 0 /\ rpos = 0)
  /\ (pid \in live /\ pc["C"] # "start_parent" /\ pc["E"] # "commit_bytes"
        => bytes = rpos)

\* track_import has signalled a child that had delivered data and closed
\* its read end, and is about to reap it
C6_Witness ==
  /\ pc["C"] = "stop_wait" /\ retpc["C"] = "start_import"
  /\ pid \in live /\ pid \in signalled /\ bytes > SAMPLE /\ nstart < MaxImports

\* C7: outside track_clear, stop_import is entered only with a child
\* recorded whose pipe tr->fd holds, its assertion holds and its close()
\* closes an open descriptor
C7_StopMatchesStart ==
  /\ fault \notin {"assert_pid", "close"}
  /\ \A t \in Threads :
       (pc[t] = "stop_import" /\ ~InClear) => (pid \in live /\ OwnsFd)

\* C8: when track_clear has returned, no block is allocated, no child is
\* running or unreaped and no end of a pipe is open
C8_ClearReleasesAll ==
  pc["C"] = "dead" =>
    /\ heap = {}
    /\ live = {}
    /\ \A f \in FDS : fdtab[f] = 0
    /\ wends = {}

\* C9: the committed PCM is the stream read so far, in order, and no step
\* but the freeing of the blocks changes a byte below length * SAMPLE
C9_CommittedInFileOrder ==
  /\ [](~Clearing =>
          /\ length * SAMPLE <= Len(src)
          /\ \A i \in 0..(length * SAMPLE - 1) : pcm[i] = src[i + 1])
  /\ [][pc["C"] # "clear_free" =>
          \A i \in 0..(length * SAMPLE - 1) : pcm'[i] = pcm[i]]_vars

\* two blocks are committed from a restarted import, out of reads that
\* split samples
C9_Witness ==
  /\ nstart = 2 /\ pid = 2 /\ length = CapSamples - 1 /\ bytes = CapBytes - 1
  /\ pc["E"] = "access_pcm_data"

\* the pump is not between a read and the end of its commit, and every
\* byte read since the counters were reset came out of an importer's pipe
Settled ==
  /\ pc["E"] \notin {"commit_bytes", "commit_pcm_samples", "meter"}
  /\ ~Clearing
  /\ \A i \in 1..rpos : src[i] # Junk

\* C10: however the reads chopped the stream, what is committed is what one
\* read of the consumed bytes commits: the same length, PCM, accumulators
\* and ppm and overview bytes
C10_ChunkingInvisible ==
  Settled =>
    /\ length = Avail
    /\ length * SAMPLE <= Len(src)
    /\ \A i \in 0..(length * SAMPLE - 1) : pcm[i] = src[i + 1]
    /\ (length > 0 => ppm = RefPpm(length) /\ overview = RefOverview(length))
    /\ \A i \in 0..(length - 1) :
         /\ ppmb[i \div TRACK_PPM_RES] = RefPpmByte(i \div TRACK_PPM_RES, length)
         /\ ovb[i \div TRACK_OVERVIEW_RES] = RefOvByte(i \div TRACK_OVERVIEW_RES, length)

\* three samples are committed and a byte of the fourth is stored; the last
\* read began inside a sample
C10_Witness ==
  /\ Settled /\ pc["E"] = "access_pcm_data" /\ z = SAMPLE /\ acc_fill = 1
  /\ bytes = 3 * SAMPLE + 1 /\ length = 3 /\ ppmb[2] > 0 /\ ovb[1] > 0

\* C11: when the pump returned Done or Fatal, tr->pid is 0 at track_handle's
\* UNLOCK, and no step of stop_import changes length, bytes, the block list
\* or the content of a block
C11_StopKeepsCommitted ==
  /\ [](pc["E"] = "handle_unlock" /\ r # 0 => pid = 0)
  /\ [][pc["E"] \in {"stop_import", "stop_wait"} =>
          UNCHANGED <<length, bytes, blocks, heap, pcm, ppmb, ovb>>]_vars

\* end of file after one sample and three bytes of the next: track_handle is
\* about to return, the child is reaped and the counters stand
C11_Witness ==
  /\ pc["E"] = "handle_unlock" /\ r = 1 /\ pid = 0 /\ live = {}
  /\ bytes = SAMPLE + 3 /\ length = 1 /\ blocks = 1 /\ ppmb[0] # Unwritten

\* C12: bytes never passes the capacity; with the last block full the pump
\* reads no more but returns -1; the import then ends with every sample of
\* every block committed, the child reaped and tr->pid = 0
C12_FullTrackEndsImport ==
  /\ bytes <= CapBytes /\ length <= CapSamples /\ blocks <= TRACK_MAX_BLOCKS
  /\ (pc["E"] = "read" => bytes < CapBytes)
  /\ (bytes = CapBytes /\ pc["E"] \in {"stop_import", "stop_wait"}
        => r = -1 /\ length = CapSamples /\ blocks = TRACK_MAX_BLOCKS)
  /\ (bytes = CapBytes /\ pc["E"] = "handle_unlock"
        => length = CapSamples /\ blocks = TRACK_MAX_BLOCKS /\ pid = 0 /\ live = {})

\* the importer's stream filled the track; the pump returned -1 and the
\* child is reaped
C12_Witness ==
  /\ pc["E"] = "handle_unlock" /\ r = -1 /\ pid = 0 /\ live = {}
  /\ bytes = CapBytes /\ length = CapSamples /\ rpos = CapBytes
  /\ Len(src) > CapBytes /\ \A i \in 1..rpos : src[i] # Junk

\* C13: the importer's stream is src; from some point on the track is idle
\* with every byte counted and the whole samples committed
C13_FiniteStreamCompletes ==
  <>[](/\ pid = 0 /\ live = {}
       /\ bytes = Len(src)
       /\ length = Len(src) \div SAMPLE)

\* a stream of two samples and three bytes has ended
C13_Witness ==
  /\ pid = 0 /\ live = {} /\ pc["E"] = "idle" /\ pe = "null"
  /\ Len(src) = 2 * SAMPLE + 3 /\ bytes = 2 * SAMPLE + 3 /\ length = 2

\* a step of the event-loop thread
StepE == pc'["E"] # pc["E"] \/ elocals' # elocals

\* C14: track_handle on a track without a registered slot, or whose slot
\* reports nothing, returns: it takes no lock, changes no field and does
\* not fault
C14_HandleWithoutSlotReturns ==
  [][(pc["E"] = "handle" /\ StepE /\ ~(pe = "slot" /\ slot_revents # 0))
       => (pc'["E"] = "idle" /\ fault' = "none"
           /\ UNCHANGED <<TrackFields, mx>>)]_vars

\* C15: at track_pollfd's return, r is 1 exactly when a child is running,
\* and then the slot holds the child's pipe, POLLIN and no ready events and
\* tr->pe is the slot; otherwise r is 0 and tr->pe is NULL
C15_PollfdReportsImporting ==
  pc["E"] = "pollfd_unlock" =>
    IF pid \in live
      THEN /\ r_pollfd = 1
           /\ pe = "slot"
           /\ slot_fd = fd /\ OwnsFd
           /\ slot_events = POLLIN /\ slot_revents = 0
      ELSE r_pollfd = 0 /\ pe = "null"

\* v as the metering rule has it: |L| + |R|, a number of up to 17 bits
RefV(L, R) == Abs(L) + Abs(R)

\* C16: every turn of the metering loop moves tr->ppm as the rule does from
\* v = |L| + |R| and stores its bits 8..15
C16_MeterMatchesReference ==
  [][(pc["E"] = "meter" /\ cp_samples' # cp_samples) =>
       LET i == cp_blk * TRACK_BLOCK_SAMPLES + cp_fill
           p == PpmNext(ppm, RefV(SampleL(pcm, i), SampleR(pcm, i)))
       IN /\ ppm' = p
          /\ ppmb'[PpmIndex(cp_blk, cp_fill)] = (p \div 256) % 256]_vars

\* C18: the region access_pcm_data returned starts at the byte cursor, has
\* at least one byte and ends at the end of its block; the assertion of
\* commit_pcm_samples holds; the samples being metered are the last
\* committed ones and lie in the block whose meters are written
C18_RegionInsideBlock ==
  /\ fault # "assert_samples"
  /\ (pc["E"] = "read" =>
        /\ acc_blk \in heap
        /\ acc_len >= 1
        /\ RegionStart(acc_blk, acc_fill) = bytes
        /\ RegionStart(acc_blk, acc_fill) + acc_len = (acc_blk + 1) * TRACK_BLOCK_PCM_BYTES)
  /\ (pc["E"] = "commit_bytes" =>
        bytes \div TRACK_BLOCK_PCM_BYTES = (bytes + z - 1) \div TRACK_BLOCK_PCM_BYTES)
  /\ (pc["E"] = "meter" =>
        /\ cp_blk \in heap
        /\ cp_samples >= 1
        /\ cp_fill + cp_samples <= TRACK_BLOCK_SAMPLES
        /\ cp_blk * TRACK_BLOCK_SAMPLES + cp_fill + cp_samples = length)

\* a read that began three bytes into the second block filled it: two
\* samples are committed at once, to be metered into the second block
C18_Witness ==
  /\ pc["E"] = "meter" /\ cp_blk = 1 /\ cp_fill = 0 /\ cp_samples = 2
  /\ acc_blk = 1 /\ acc_fill = 3 /\ z = 5 /\ length = CapSamples

\* C19: every turn of the pump's loop that does not return adds at least
\* one byte to tr->bytes, which nothing in the pump lowers and which stays
\* within the capacity; at the capacity the next turn returns; every turn
\* of the metering loop counts samples down
C19_PumpIterationsBounded ==
  /\ [](pc["E"] = "commit_bytes" => z >= 1 /\ bytes + z <= CapBytes)
  /\ [](pc["E"] \in {"access_pcm_data", "read", "commit_pcm_samples", "meter"}
          => bytes <= CapBytes)
  /\ [][(pc["E"] = "commit_bytes" /\ StepE) => bytes' > bytes]_vars
  /\ [][(pc["E"] \in {"access_pcm_data", "read", "commit_pcm_samples", "meter"})
          => bytes' = bytes]_vars
  /\ [][(pc["E"] = "access_pcm_data" /\ StepE /\ bytes = CapBytes)
          => (pc'["E"] = "stop_import" /\ r' = -1)]_vars
  /\ [][(pc["E"] = "meter" /\ StepE)
          => (cp_samples' = cp_samples - 1 /\ cp_samples' >= 0)]_vars

\* the pump is in its fifth turn within one call of track_handle, having
\* read the whole track in reads that were not all of a block
C19_Witness ==
  /\ pc["E"] = "access_pcm_data" /\ bytes = CapBytes /\ z = 1 /\ acc_fill = 7
  /\ acc_blk = 1 /\ Len(src) > CapBytes /\ pid \in live

\* C20: the descriptor read_from_pipe reads, the one stop_import closes and
\* the one track_pollfd writes into the slot is the open read end of the
\* running child's pipe
C20_UsesOwnedDescriptor ==
  /\ (pc["E"] = "read" => OwnsFd)
  /\ (\A t \in Threads : pc[t] = "stop_import" => OwnsFd)
  /\ (pc["E"] = "pollfd_unlock" /\ r_pollfd = 1 => slot_fd = fd /\ OwnsFd)

====
